---- MODULE Spec2Model ----
(***************************************************************************)
(* Optimal-control engine of neurolib (neurolib/optimal_control/oc.py):    *)
(* the saturation function, the interval normalisation, the construction   *)
(* checks, the adaptive step-size search and the deterministic and noisy   *)
(* optimisation drivers, with the single-node Hopf controller (OcHopf) as  *)
(* the concrete controller class.                                          *)
(*                                                                         *)
(* Numbers.  Control values, gradients and steps are integers: a step is   *)
(* counted in units of 10.0 / 2^StepRes, so that the factors 0.5, 0.25 and *)
(* 2.0 are exact as long as the step is a multiple of the divisor.  A cost *)
(* is a pair <<numerator, denominator>>: the mean of M realisations is     *)
(* <<sum, M>>, and NaN is <<0, 0>>.  The optional value None is <<>> and a *)
(* present value v is <<v>>.                                               *)
(*                                                                         *)
(* Simulator.  model.run() is not part of these sources.  A noise-free     *)
(* model (M = 1) is an arbitrary but fixed function of the model's input   *)
(* and the control, revealed on first use (sim_memo); a noisy model        *)
(* (M > 1) draws a fresh outcome at every run.  An outcome is the total    *)
(* cost of the simulated trajectory, NaN for a trajectory holding NaN.     *)
(* Controllers with M = 1 on a noisy model are not explored.               *)
(*                                                                         *)
(* Specifications.  Spec is the life of one controller: construction with  *)
(* the x channel as the only active control, then optimize() calls.        *)
(* SpecDeterministic is its noise-free part with the fairness of a running *)
(* program, SpecCaller the same with a caller that assigns self.step.      *)
(* SpecNoisyLoop is the loop of optimize_noisy with step_size as one step, *)
(* SpecNoisyTrial one noisy trial with the loop of compute_cost_noisy.     *)
(* The other specifications apply one function to arguments drawn in the   *)
(* initial state: SpecLimit update_control_with_limit, SpecConstruction    *)
(* the constructor, SpecInterval convert_interval (twice), SpecPrecision   *)
(* the precision cost and its derivative, SpecAdjoint solve_adjoint,       *)
(* SpecGradient compute_gradient.                                          *)
(***************************************************************************)
EXTENDS Integers, Sequences, FiniteSets, TLC

\* ------------------------------------------------------------------ bounds
MaxCost == 1          \* total costs of one simulation are 0..MaxCost
StepRes == 2          \* the initial step 10.0 is 2^StepRes units
MaxStep == 16         \* steps are not grown beyond MaxStep units
MaxInput == 3         \* initial external inputs are 0 or MaxInput
MaxStrength == 2      \* the saturation bound is None or MaxStrength
MaxGrad == 1          \* gradient entries are -MaxGrad..MaxGrad
MaxIter == 2          \* n_max_iterations is 0..MaxIter, and a controller
                      \* records at most MaxIter iterations in all
MaxCalls == 2         \* optimize() is called at most MaxCalls times
MaxNoisyCalls == 1    \* optimize() of a noisy controller is called at most MaxNoisyCalls times
MaxSearches == 2      \* no search is explored after MaxSearches searches that found a step
MaxZeroSearches == 2  \* no search is explored after MaxZeroSearches stagnated searches
MaxM == 2             \* M is 1..MaxM
MaxMValidation == 1   \* M_validation is 0..MaxMValidation
T == 3                \* self.T, the number of time steps
MaxMask == 2          \* entries of a given mask are 0..MaxMask
MaxLen == 10          \* convert_interval on its own: array lengths are 0..MaxLen
MaxVal == 1           \* entries of a target or simulated time series are 0..MaxVal
MaxWeight == 2        \* the precision weight w_p is 1..MaxWeight
MaxJac == 1           \* entries of a Jacobian of the dynamics are 0..MaxJac
MaxScale == 2         \* the scalar that multiplies fx is -1..MaxScale
MaxDt == 1            \* dt is 1..MaxDt units of time
MaxLoopIter == 5      \* the loop of optimize_noisy on its own: n_max_iterations is 0..MaxLoopIter
MaxSlope == 1         \* a time-dependent control Jacobian grows by 0..MaxSlope per time index
MaxSkipped == 3       \* compute_cost_noisy on its own: at most MaxSkipped realisations diverge
count_step == 2       \* self.count_step, the cap of the decrease/increase loops
count_noisy_step == 2 \* self.count_noisy_step, the cap of the noisy retries

\* ------------------------------------------------------------------ numbers
None == <<>>
NaN == <<0, 0>>

Abs(x) == IF x < 0 THEN -x ELSE x

\* variant: a sign that is always positive
SignLost(x) == 1

\* np.sign
Sign(x) == IF x > 0 THEN 1 ELSE IF x < 0 THEN -1 ELSE 0

RECURSIVE Pow2(_)
Pow2(k) == IF k = 0 THEN 1 ELSE 2 * Pow2(k - 1)

IsNaN(c) == c = NaN

\* IEEE comparisons of costs: every comparison with NaN is false
Gt(a, b) == ~IsNaN(a) /\ ~IsNaN(b) /\ a[1] * b[2] > b[1] * a[2]

Lt(a, b) == Gt(b, a)

Le(a, b) == ~IsNaN(a) /\ ~IsNaN(b) /\ a[1] * b[2] <= b[1] * a[2]

\* self.factor_up = 2.0
factor_up == 2

\* step *= self.factor_down, with self.factor_down = 0.5
TimesFactorDown(s) == s \div 2

\* variant: a step that is not shrunk
step_kept(s) == s

\* step *= self.factor_down**2
TimesFactorDownSquared(s) == TimesFactorDown(TimesFactorDown(s))

\* the step is a multiple of d units, so dividing it by d is exact
Exact(s, d) == s % d = 0

\* ------------------------------------------------------- saturation function
\* np.zeros(control.shape)
Zeros(control) == [k \in DOMAIN control |-> 0]

Neg(gradient) == [k \in DOMAIN gradient |-> -gradient[k]]

\* variant: no saturation
Unsaturated(c, u_max) == c

\* the clipping of one element (oc.py:282-283)
Saturate(c, u_max) ==
    IF u_max # None /\ Abs(c) > u_max[1] THEN Sign(c) * u_max[1] ELSE c

\* variant: the update moves one unit of step too far
update_control_overshoot(control, step_, gradient, u_max) ==
    [k \in DOMAIN control |->
        IF u_max # None /\ Abs(control[k] + (step_ + 1) * gradient[k]) > u_max[1]
        THEN Sign(control[k] + (step_ + 1) * gradient[k]) * u_max[1]
        ELSE control[k] + (step_ + 1) * gradient[k]]

\* update_control_with_limit (oc.py:255-285): control + step * gradient, each
\* element clipped when u_max is given
update_control_with_limit(control, step_, gradient, u_max) ==
    [k \in DOMAIN control |-> Saturate(control[k] + step_ * gradient[k], u_max)]

\* ------------------------------------------------------------------ state
VARIABLES
    \* fields of the controller (OC / OcHopf)
    control, step, zero_step_encountered, cost_history, control_history,
    step_sizes_history, step_sizes_loops_history, maximum_control_strength,
    M, M_validation, validate_per_step, cost_matrix, control_matrix,
    cost_interval, target_timeseries,
    \* the model's external input, self.model.params["x_ext"], ["y_ext"]
    model_input,
    \* the responses of the noise-free simulator revealed so far
    sim_memo,
    \* position in the program and the locals of the running calls
    pc, calls, i, n_max_iterations, consecutive_zero_step, count,
    cost_gradient, cost0, cost_prev, lstep, control0, counter,
    \* history variables: the last forward simulation (whether one ran, whether
    \* it simulated a trial of the step-size search, the model input and
    \* self.control at that moment), and the cost the search evaluated for the
    \* control it currently holds
    last_sim, kept_cost,
    \* the arguments and the result of a function applied on its own
    fn_args, fn_result

fields == <<control, step, zero_step_encountered, cost_history, control_history,
            step_sizes_history, step_sizes_loops_history,
            maximum_control_strength, M, M_validation, validate_per_step,
            cost_matrix, control_matrix, cost_interval, target_timeseries>>

settings == <<maximum_control_strength, M, M_validation, validate_per_step,
              cost_matrix, control_matrix, target_timeseries>>

config == <<settings, cost_interval>>

fn == <<fn_args, fn_result>>

histories == <<cost_history, control_history, step_sizes_history,
               step_sizes_loops_history>>

driver == <<calls, i, n_max_iterations, consecutive_zero_step, count>>

search == <<cost_gradient, cost0, cost_prev, lstep, control0, counter>>

vars == <<fields, model_input, sim_memo, pc, driver, search, last_sim, kept_cost, fn>>

\* ------------------------------------------------------------ controller
\* OcHopf.__init__ (oc_hopf.py:140-142): the control stacks x_ext and y_ext
ControlOf(input) == [x |-> input.x_ext, y |-> input.y_ext]

\* OcHopf.update_input: the model's input is rewritten from self.control
update_input(control_) == [x_ext |-> control_.x, y_ext |-> control_.y]

InputVals == {0, MaxInput}

\* the external inputs of the model at construction: y_ext is zero
Inputs == [x_ext : InputVals, y_ext : {0}]

Strengths == {None, <<MaxStrength>>}

GradVals == (0 - MaxGrad)..MaxGrad

\* the gradients self.compute_gradient() may return for a finite adjoint
\* state: the control matrix activates the x channel only and w_2 = 0, so the
\* y entry is zero (compute_gradient, oc.py:243)
Directions == [x : GradVals, y : {0}]

ZeroControl == [x |-> 0, y |-> 0]

NoSim == [ran |-> FALSE, trial |-> FALSE, input |-> update_input(ZeroControl), control |-> ZeroControl]

\* ------------------------------------------------------------- simulator
SimOutcomes == {NaN} \cup {<<c, 1>> : c \in 0..MaxCost}

\* o is what simulate_forward() followed by compute_total_cost() gives for
\* this input and control: fixed for a noise-free model, free for a noisy one
CanRun(o, input, control_) ==
    \/ M > 1
    \/ <<input, control_>> \in DOMAIN sim_memo => sim_memo[<<input, control_>>] = o

Remember(o, input, control_) ==
    IF M > 1 THEN sim_memo ELSE (<<input, control_>> :> o) @@ sim_memo

\* compute_cost_noisy (oc.py:804-817): the mean of m realisations without NaN;
\* realisations with NaN are simulated again
compute_cost_noisy(m) == {<<s, m>> : s \in 0..(m * MaxCost)}

\* cost_validation / M with M = 0 (oc.py:817) raises ZeroDivisionError
compute_cost_noisy_raises(m) == m = 0

\* cost_m / self.M after M runs of compute_total_cost (oc.py:741-746, 782-787):
\* a realisation with NaN makes the mean NaN
mean_total_cost(m) == {NaN} \cup {<<s, m>> : s \in 0..(m * MaxCost)}

\* np.argmin: the first NaN if there is one, else the first least entry
\* (indices from 1)
argmin(h) ==
    LET nans == {k \in 1..Len(h) : IsNaN(h[k])}
        least == {k \in 1..Len(h) : \A j \in 1..Len(h) : Le(h[k], h[j])}
        first(S) == CHOOSE k \in S : \A j \in S : k <= j
    IN  IF nans # {} THEN first(nans) ELSE first(least)

\* ---------------------------------------------------------- construction
\* the variables other than pc and the function call, before construction
Unconstructed ==
    /\ control = ZeroControl
    /\ model_input = update_input(ZeroControl)
    /\ step = 0
    /\ zero_step_encountered = FALSE
    /\ cost_history = <<>>
    /\ control_history = <<>>
    /\ step_sizes_history = <<>>
    /\ step_sizes_loops_history = <<>>
    /\ maximum_control_strength = None
    /\ M = 1
    /\ M_validation = 0
    /\ validate_per_step = FALSE
    /\ cost_matrix = None
    /\ control_matrix = None
    /\ cost_interval = <<None, None>>
    /\ target_timeseries = None
    /\ sim_memo = <<>>
    /\ calls = 0
    /\ i = 0
    /\ n_max_iterations = 0
    /\ consecutive_zero_step = 0
    /\ count = 0
    /\ cost_gradient = ZeroControl
    /\ cost0 = NaN
    /\ cost_prev = NaN
    /\ lstep = 0
    /\ control0 = ZeroControl
    /\ counter = 0
    /\ last_sim = NoSim
    /\ kept_cost = NaN

Init ==
    /\ pc = "new"
    /\ fn_args = None
    /\ fn_result = None
    /\ Unconstructed

\* the locals of step_size outside a search
SearchIdle ==
    /\ cost_gradient' = ZeroControl
    /\ cost0' = NaN
    /\ cost_prev' = NaN
    /\ lstep' = 0
    /\ control0' = ZeroControl
    /\ counter' = 0
    /\ kept_cost' = NaN

\* max(1, M) (oc.py:443)
NoiseRealizations(m) == IF m > 1 THEN m ELSE 1

\* the control OcHopf.__init__ stores (oc_hopf.py:150)
InitialControl(input, u_max) ==
    update_control_with_limit(ControlOf(input), 0, Zeros(ControlOf(input)), u_max)

\* a mask of the single node: one entry per variable (x, y)
ones == <<1, 1>>

Masks == {None} \cup [1..2 -> 0..MaxMask]

\* variant: a cast that keeps every value
astype_same(matrix) == matrix

\* matrix.astype(bool), read back as numbers
astype_bool(matrix) == [k \in DOMAIN matrix |-> IF matrix[k] # 0 THEN 1 ELSE 0]

\* np.array_equal(matrix, matrix.astype(bool)) (oc.py:434, 441)
is_binary(matrix) == matrix = astype_bool(matrix)

\* variant: every index is counted from the end
interval_shifted(index, default, array_length) ==
    IF index = None THEN default ELSE array_length + index[1]

\* one index of an interval (oc.py:303-317): the normalised index
interval_new(index, default, array_length) ==
    IF index = None THEN default
    ELSE IF index[1] < 0 THEN array_length + index[1]
    ELSE index[1]

\* variant: a negative index is never checked
index_never_raises(index, array_length) == FALSE

\* the assert on a negative index (oc.py:306, 314) fails
index_raises(index, array_length) ==
    index # None /\ index[1] < 0 /\ ~(index[1] > 0 - array_length)

\* convert_interval (oc.py:288-322) fails one of its four asserts
convert_interval_raises(interval, array_length) ==
    LET interval_0_new == interval_new(interval[1], 0, array_length)
        interval_1_new == interval_new(interval[2], array_length, array_length)
    IN  \/ index_raises(interval[1], array_length)
        \/ index_raises(interval[2], array_length)
        \/ ~(interval_0_new < interval_1_new)
        \/ ~(interval_1_new <= array_length)

\* convert_interval (oc.py:288-322), the pair it returns
convert_interval(interval, array_length) ==
    << <<interval_new(interval[1], 0, array_length)>>,
       <<interval_new(interval[2], array_length, array_length)>> >>

IndexVals == {None} \cup {<<v>> : v \in (0 - T - 1)..(T + 1)}

Intervals == IndexVals \X IndexVals

\* cost_matrix / control_matrix after the default (oc.py:428-431, 436-438)
MatrixOrOnes(matrix) == IF matrix = None THEN ones ELSE matrix

\* one of the asserts of OC.__init__ fails (oc.py:434, 441, 488)
init_raises(cost_m, control_m, interval) ==
    \/ ~is_binary(MatrixOrOnes(cost_m))
    \/ ~is_binary(MatrixOrOnes(control_m))
    \/ convert_interval_raises(interval, T)

\* self.N, the single node of the model (oc.py:384)
N == 1

\* self.dim_out, the output variables x and y (oc.py:387)
dim_out == 2

\* the shape of np.zeros((self.N, self.dim_out, self.T)) (oc.py:408)
target_shape == <<N, dim_out, T>>

\* the targets given to a constructor: a number <<p>>, the target period, or
\* an array, of which the model keeps the shape <<nodes, variables, times>>
Targets ==
    {<<1>>} \cup ((N..(N + 1)) \X ((dim_out - 1)..dim_out) \X ((T - 1)..(T + 1)))

\* self.target_timeseries (oc.py:399-409): a given array is stored as it is,
\* a target period gives an array of zeros of the shape of the model
target_stored(target) == IF Len(target) = 3 THEN target ELSE target_shape

\* OC.__init__ (oc.py:399-488) followed by OcHopf.__init__
\* (oc_hopf.py:136-150), for a model whose external input is `input`: the
\* target is stored, the masks and the interval are checked; the model keeps
\* its input, the control is the saturated copy of it
Constructor(input, target, u_max, m, mv, vps, cost_m, control_m, interval) ==
    /\ pc = "new"
    /\ IF init_raises(cost_m, control_m, interval)
       THEN /\ pc' = "raised"
            /\ UNCHANGED <<control, step, zero_step_encountered, config, model_input>>
       ELSE /\ model_input' = input
            /\ target_timeseries' = target_stored(target)
            /\ maximum_control_strength' = u_max
            /\ cost_matrix' = MatrixOrOnes(cost_m)
            /\ control_matrix' = MatrixOrOnes(control_m)
            /\ M' = NoiseRealizations(m)
            /\ M_validation' = mv
            /\ validate_per_step' = vps
            /\ cost_interval' = convert_interval(interval, T)
            /\ control' = InitialControl(input, u_max)
            /\ step' = Pow2(StepRes)
            /\ zero_step_encountered' = FALSE
            /\ pc' = "idle"
    /\ UNCHANGED <<fn, histories, sim_memo, driver, search, last_sim, kept_cost>>

\* a control matrix that activates the x channel only
x_only == <<1, 0>>

\* construction with a target of the shape of the model, the default cost
\* matrix and interval, and the x channel as the only active control
Construct ==
    \E input \in Inputs, u_max \in Strengths, m \in 0..MaxM,
       mv \in 0..MaxMValidation, vps \in BOOLEAN :
        Constructor(input, target_shape, u_max, m, mv, vps, None, x_only,
                    <<None, None>>)

\* the target, the masks and the interval given to a constructor
ConstructorArgs ==
    [target : Targets, cost_matrix : Masks, control_matrix : Masks,
     cost_interval : Intervals]

\* construction of a noise-free controller with the given target, masks and
\* interval
ConstructWith ==
    /\ fn_args \in ConstructorArgs
    /\ Constructor(update_input(ZeroControl), fn_args.target, None, 1, 0, FALSE,
                   fn_args.cost_matrix, fn_args.control_matrix,
                   fn_args.cost_interval)

\* ------------------------------------------------------- step-size search
\* OC.step_size, oc.py:601-616: simulate with the input the model holds,
\* evaluate cost0, load the step and memorise the control
StepSizeEnter(direction, s) ==
    /\ \E o \in SimOutcomes :
        /\ CanRun(o, model_input, control)
        /\ sim_memo' = Remember(o, model_input, control)
        /\ \E c \in (IF M > 1 THEN compute_cost_noisy(M) ELSE {o}) : cost0' = c
    /\ last_sim' = [ran |-> TRUE, trial |-> FALSE, input |-> model_input, control |-> control]
    /\ cost_gradient' = direction
    /\ lstep' = s
    /\ control0' = control
    /\ counter' = 0
    /\ cost_prev' = NaN
    /\ kept_cost' = NaN
    /\ pc' = "ss_stab"

\* the searches that have ended stagnated: they return the step 0 after no
\* pass of a loop (oc.py:650-656) or after count_step passes (oc.py:75-84)
ZeroSearches ==
    Cardinality({k \in 1..Len(step_sizes_history) :
        /\ step_sizes_history[k] = 0
        /\ step_sizes_loops_history[k] \in {0, count_step}})

\* a further search, after `done` searches of which `zeros` stagnated, is
\* within the bounds
SearchAllowed(done, zeros) ==
    /\ zeros < MaxZeroSearches
    /\ done - zeros < MaxSearches
    /\ Len(cost_history) <= MaxIter

\* the trial control of a step (oc.py:620, 62-64, 126-128)
Trial(s) ==
    update_control_with_limit(control0, s, cost_gradient, maximum_control_strength)

\* the cost of a trial whose single simulation gave o (oc.py:634-638, 70-73,
\* 146-149)
TrialCosts(o) == IF M > 1 THEN compute_cost_noisy(M) ELSE {o}

\* np.isnan(self.get_xs()).any() for the simulation that gave o
diverged(o) == IsNaN(o)

\* oc.py:618-631, a trial of the stabilisation loop that diverges: the step
\* is quartered, stored in self.step, and the control rewritten
StabilizeDiverged ==
    /\ pc = "ss_stab"
    /\ Exact(lstep, 4)
    /\ \E o \in SimOutcomes :
        /\ diverged(o)
        /\ CanRun(o, update_input(Trial(lstep)), Trial(lstep))
        /\ sim_memo' = Remember(o, update_input(Trial(lstep)), Trial(lstep))
    /\ last_sim' = [ran |-> TRUE, trial |-> TRUE, input |-> update_input(Trial(lstep)),
                    control |-> Trial(lstep)]
    /\ lstep' = TimesFactorDownSquared(lstep)
    /\ step' = lstep'
    /\ control' = Trial(lstep')
    /\ model_input' = update_input(control')
    /\ UNCHANGED <<fn, zero_step_encountered, histories, config, pc, driver,
                   cost_gradient, cost0, cost_prev, control0, counter,
                   kept_cost>>

\* variant: the comparison read the wrong way round
no_improvement_reversed(c, c0) == Lt(c, c0)

\* cost > cost0 (oc.py:641-642, and the loop condition oc.py:57)
no_improvement(c, c0) == Gt(c, c0)

\* cost < cost0 (oc.py:646-647)
improvement(c, c0) == Lt(c, c0)

\* oc.py:618-656, a stable trial ends the stabilisation loop; its cost decides
\* between the decrease loop, the increase loop and the zero step
StabilizeStable ==
    /\ pc = "ss_stab"
    /\ \E o \in SimOutcomes :
        /\ ~diverged(o)
        /\ CanRun(o, update_input(Trial(lstep)), Trial(lstep))
        /\ sim_memo' = Remember(o, update_input(Trial(lstep)), Trial(lstep))
        /\ \E c \in TrialCosts(o) :
            /\ kept_cost' = c
            /\ IF no_improvement(c, cost0)
               THEN /\ pc' = "ss_dec"
                    /\ UNCHANGED <<lstep, cost_prev, zero_step_encountered>>
               ELSE IF improvement(c, cost0)
               THEN /\ pc' = "ss_inc"
                    /\ cost_prev' = cost0
                    /\ UNCHANGED <<lstep, zero_step_encountered>>
               ELSE /\ pc' = "ss_ret"
                    /\ lstep' = 0
                    /\ zero_step_encountered' = TRUE
                    /\ UNCHANGED cost_prev
    /\ last_sim' = [ran |-> TRUE, trial |-> TRUE, input |-> update_input(Trial(lstep)),
                    control |-> Trial(lstep)]
    /\ control' = Trial(lstep)
    /\ model_input' = update_input(control')
    /\ counter' = 0
    /\ UNCHANGED <<fn, step, histories, config, driver, cost_gradient, cost0, control0>>

\* variant: a search depth that is never reached
search_depth_never_reached(n) == FALSE

\* counter == controlled_model.count_step (oc.py:75, 163)
search_depth_reached(n) == n = count_step

\* decrease_step, oc.py:57-84, one pass of the loop
DecreaseTrial ==
    /\ pc = "ss_dec"
    /\ Exact(lstep, 2)
    /\ LET s == TimesFactorDown(lstep) IN
       /\ \E o \in SimOutcomes :
           /\ CanRun(o, update_input(Trial(s)), Trial(s))
           /\ sim_memo' = Remember(o, update_input(Trial(s)), Trial(s))
           /\ \E c \in TrialCosts(o) :
               /\ IF search_depth_reached(counter + 1)
                  THEN /\ lstep' = 0
                       /\ control' = update_control_with_limit(
                              control0, 0, Zeros(control0), maximum_control_strength)
                       /\ zero_step_encountered' = TRUE
                       /\ kept_cost' = cost0
                       /\ pc' = "ss_ret"
                  ELSE /\ lstep' = s
                       /\ control' = Trial(s)
                       /\ kept_cost' = c
                       /\ pc' = IF no_improvement(c, cost0) THEN "ss_dec" ELSE "ss_ret"
                       /\ UNCHANGED zero_step_encountered
       /\ last_sim' = [ran |-> TRUE, trial |-> TRUE, input |-> update_input(Trial(s)),
                       control |-> Trial(s)]
    /\ model_input' = update_input(control')
    /\ counter' = counter + 1
    /\ UNCHANGED <<fn, step, histories, config, driver, cost_gradient, cost0,
                   cost_prev, control0>>

\* cost > cost_prev (oc.py:151)
cost_increased(c, c_prev) == Gt(c, c_prev)

\* increase_step, oc.py:132-142, a grown step that diverges is undone
IncreaseDiverged ==
    /\ pc = "ss_inc"
    /\ lstep * factor_up <= MaxStep
    /\ LET s == lstep * factor_up IN
       /\ \E o \in SimOutcomes :
           /\ diverged(o)
           /\ CanRun(o, update_input(Trial(s)), Trial(s))
           /\ sim_memo' = Remember(o, update_input(Trial(s)), Trial(s))
       /\ last_sim' = [ran |-> TRUE, trial |-> TRUE, input |-> update_input(Trial(s)),
                       control |-> Trial(s)]
       /\ lstep' = s \div factor_up
    /\ control' = Trial(lstep')
    /\ model_input' = update_input(control')
    /\ counter' = counter + 1
    /\ pc' = "ss_ret"
    /\ UNCHANGED <<fn, step, zero_step_encountered, histories, config, driver,
                   cost_gradient, cost0, cost_prev, control0, kept_cost>>

\* increase_step, oc.py:121-166, one pass of the loop with a stable trial
IncreaseTrial ==
    /\ pc = "ss_inc"
    /\ lstep * factor_up <= MaxStep
    /\ LET s == lstep * factor_up IN
       /\ \E o \in SimOutcomes :
           /\ ~diverged(o)
           /\ CanRun(o, update_input(Trial(s)), Trial(s))
           /\ sim_memo' = Remember(o, update_input(Trial(s)), Trial(s))
           /\ \E c \in TrialCosts(o) :
               /\ IF cost_increased(c, cost_prev)
                  THEN /\ lstep' = s \div factor_up
                       /\ pc' = "ss_ret"
                       /\ UNCHANGED <<cost_prev, kept_cost>>
                  ELSE /\ lstep' = s
                       /\ cost_prev' = c
                       /\ kept_cost' = c
                       /\ pc' = IF search_depth_reached(counter + 1) THEN "ss_ret"
                                ELSE IF Lt(c, cost_prev') THEN "ss_inc"
                                ELSE "ss_ret"
       /\ last_sim' = [ran |-> TRUE, trial |-> TRUE, input |-> update_input(Trial(s)),
                       control |-> Trial(s)]
    /\ control' = Trial(lstep')
    /\ model_input' = update_input(control')
    /\ counter' = counter + 1
    /\ UNCHANGED <<fn, step, zero_step_encountered, histories, config, driver,
                   cost_gradient, cost0, control0>>

\* OC.step_size, oc.py:658-661: the step is stored and recorded
StepSizeExit ==
    /\ step' = lstep
    /\ step_sizes_loops_history' = Append(step_sizes_loops_history, counter)
    /\ step_sizes_history' = Append(step_sizes_history, lstep)

\* ------------------------------------------------------ deterministic driver
\* OC.optimize, oc.py:674-684 (the interval is normalised again, the control
\* saturated again), and optimize_deterministic, oc.py:697-702
OptimizeDeterministic ==
    /\ pc = "idle"
    /\ M = 1
    /\ cost_interval' = convert_interval(cost_interval, T)
    /\ calls < MaxCalls
    /\ \E n \in 0..MaxIter : n_max_iterations' = n
    /\ control' = update_control_with_limit(
           control, 0, Zeros(control), maximum_control_strength)
    /\ \E o \in SimOutcomes :
        /\ CanRun(o, model_input, control')
        /\ sim_memo' = Remember(o, model_input, control')
        /\ cost_history' = IF Len(cost_history) = 0 THEN Append(cost_history, o)
                           ELSE cost_history
    /\ last_sim' = [ran |-> TRUE, trial |-> FALSE, input |-> model_input, control |-> control']
    /\ i' = 1
    /\ calls' = calls + 1
    /\ pc' = "det_loop"
    /\ UNCHANGED <<fn, step, zero_step_encountered, control_history, step_sizes_history,
                   step_sizes_loops_history, settings, model_input,
                   consecutive_zero_step, count, search, kept_cost>>

\* variant: a range that ends one value early
range_exhausted_early(ii, n) == ii >= n

\* for i in range(1, n_max_iterations + 1) has no further value (oc.py:704, 753)
range_exhausted(ii, n) == ii > n

\* variant: the flag is not looked at
never_converged(flag) == FALSE

\* if self.zero_step_encountered (oc.py:707)
converged(flag) == flag

\* oc.py:704-709, 719: the range is exhausted, or the gradient is computed and
\* the zero-step flag ends the loop
DetReturn ==
    /\ pc = "det_loop"
    /\ range_exhausted(i, n_max_iterations) \/ converged(zero_step_encountered)
    /\ pc' = "idle"
    /\ UNCHANGED <<fn, fields, model_input, sim_memo, driver, search, last_sim, kept_cost>>

\* oc.py:704-711: the gradient is computed and step_size(-grad) is entered
DetStepSize ==
    /\ pc = "det_loop"
    /\ i <= n_max_iterations
    /\ ~converged(zero_step_encountered)
    /\ SearchAllowed(Len(step_sizes_history), ZeroSearches)
    /\ \E grad \in Directions : StepSizeEnter(Neg(grad), step)
    /\ UNCHANGED <<fn, fields, model_input, driver>>

\* step_size returns (oc.py:658-663); oc.py:712-717: simulate, evaluate and
\* record the cost
DetRecord ==
    /\ pc = "ss_ret"
    /\ M = 1
    /\ StepSizeExit
    /\ \E o \in SimOutcomes :
        /\ CanRun(o, model_input, control)
        /\ sim_memo' = Remember(o, model_input, control)
        /\ cost_history' = Append(cost_history, o)
    /\ last_sim' = [ran |-> TRUE, trial |-> FALSE, input |-> model_input, control |-> control]
    /\ i' = i + 1
    /\ pc' = "det_loop"
    /\ SearchIdle
    /\ UNCHANGED <<fn, control, zero_step_encountered, control_history, config,
                   model_input, calls, n_max_iterations, consecutive_zero_step, count>>

\* ------------------------------------------------------------ noisy driver
\* the cost of an iteration (oc.py:735-746, 776-787): M simulations, then the
\* mean of their costs or, with validate_per_step, compute_cost_noisy
IterationCosts ==
    IF validate_per_step THEN compute_cost_noisy(M_validation) ELSE mean_total_cost(M)

IterationRaises == validate_per_step /\ compute_cost_noisy_raises(M_validation)

\* OC.optimize, oc.py:674-687, and optimize_noisy, oc.py:729-751
OptimizeNoisy ==
    /\ pc = "idle"
    /\ M > 1
    /\ cost_interval' = convert_interval(cost_interval, T)
    /\ calls < MaxNoisyCalls
    /\ ~IterationRaises
    /\ \E n \in 0..MaxIter : n_max_iterations' = n
    /\ control' = update_control_with_limit(
           control, 0, Zeros(control), maximum_control_strength)
    /\ control_history' = IF Len(control_history) = 0
                          THEN Append(control_history, control')
                          ELSE control_history
    /\ \E c \in IterationCosts :
        cost_history' = IF Len(cost_history) = 0 THEN Append(cost_history, c)
                        ELSE cost_history
    /\ last_sim' = [ran |-> TRUE, trial |-> FALSE, input |-> model_input, control |-> control']
    /\ i' = 1
    /\ consecutive_zero_step' = 0
    /\ calls' = calls + 1
    /\ pc' = "noisy_loop"
    /\ UNCHANGED <<fn, step, zero_step_encountered, step_sizes_history,
                   step_sizes_loops_history, settings, model_input, sim_memo,
                   count, search, kept_cost>>

\* the same with validate_per_step and M_validation = 0: oc.py:739 raises
OptimizeNoisyRaises ==
    /\ pc = "idle"
    /\ M > 1
    /\ cost_interval' = convert_interval(cost_interval, T)
    /\ calls < MaxNoisyCalls
    /\ IterationRaises
    /\ \E n \in 0..MaxIter : n_max_iterations' = n
    /\ control' = update_control_with_limit(
           control, 0, Zeros(control), maximum_control_strength)
    /\ control_history' = IF Len(control_history) = 0
                          THEN Append(control_history, control')
                          ELSE control_history
    /\ last_sim' = [ran |-> TRUE, trial |-> FALSE, input |-> model_input, control |-> control']
    /\ calls' = calls + 1
    /\ pc' = "raised"
    /\ UNCHANGED <<fn, step, zero_step_encountered, cost_history, step_sizes_history,
                   step_sizes_loops_history, settings, model_input, sim_memo,
                   i, consecutive_zero_step, count, search, kept_cost>>

\* oc.py:753-761: the mean gradient, and the first search of the iteration
NoisyIterate ==
    /\ pc = "noisy_loop"
    /\ i <= n_max_iterations
    /\ SearchAllowed(Len(step_sizes_history), ZeroSearches)
    /\ count' = 1
    /\ zero_step_encountered' = FALSE
    /\ \E grad \in Directions : StepSizeEnter(Neg(grad), step)
    /\ UNCHANGED <<fn, control, step, histories, config, model_input, calls, i,
                   n_max_iterations, consecutive_zero_step>>

\* count < self.count_noisy_step (oc.py:758)
retry_allowed(n) == n < count_noisy_step

\* step_size returns stagnated (oc.py:658-663, 762) and is called again
\* (oc.py:758-761)
NoisyRetry ==
    /\ pc = "ss_ret"
    /\ M > 1
    /\ zero_step_encountered
    /\ retry_allowed(count)
    /\ SearchAllowed(Len(step_sizes_history) + 1, ZeroSearches + 1)
    /\ StepSizeExit
    /\ count' = count + 1
    /\ zero_step_encountered' = FALSE
    /\ StepSizeEnter(cost_gradient, lstep)
    /\ UNCHANGED <<fn, control, cost_history, control_history, config, model_input,
                   calls, i, n_max_iterations, consecutive_zero_step>>

\* variant: two stagnated iterations are enough
stagnated_twice(n) == n > 1

\* consecutive_zero_step > 2 (oc.py:770)
stagnated_in_a_row(n) == n > 2

\* the value of consecutive_zero_step after the searches of an iteration
\* (oc.py:762-767)
ConsecutiveAfter == IF zero_step_encountered THEN consecutive_zero_step + 1 ELSE 0

\* step_size returns and the retries end (oc.py:762-764 or 758).  Three
\* stagnated iterations in a row leave the loop (oc.py:766-772); otherwise
\* the control and the cost of the iteration are recorded (oc.py:774-791)
NoisyRecord ==
    /\ pc = "ss_ret"
    /\ M > 1
    /\ ~(zero_step_encountered /\ retry_allowed(count))
    /\ StepSizeExit
    /\ consecutive_zero_step' = ConsecutiveAfter
    /\ IF zero_step_encountered /\ stagnated_in_a_row(ConsecutiveAfter)
       THEN /\ pc' = "noisy_fin"
            /\ UNCHANGED <<cost_history, control_history, i, last_sim>>
       ELSE /\ control_history' = Append(control_history, control)
            /\ last_sim' = [ran |-> TRUE, trial |-> FALSE, input |-> model_input, control |-> control]
            /\ IF IterationRaises
               THEN /\ pc' = "raised"
                    /\ UNCHANGED <<cost_history, i>>
               ELSE /\ \E c \in IterationCosts :
                        cost_history' = Append(cost_history, c)
                    /\ i' = i + 1
                    /\ pc' = "noisy_loop"
    /\ SearchIdle
    /\ UNCHANGED <<fn, control, zero_step_encountered, config, model_input, sim_memo,
                   calls, n_max_iterations, count>>

\* the loop of optimize_noisy has ended
NoisyLoopEnded ==
    \/ pc = "noisy_loop" /\ range_exhausted(i, n_max_iterations)
    \/ pc = "noisy_fin"

\* oc.py:793-802: the control of the least recorded cost is restored and
\* validated
NoisyFinish ==
    /\ NoisyLoopEnded
    /\ ~compute_cost_noisy_raises(M_validation)
    /\ control' = control_history[argmin(cost_history)]
    /\ model_input' = update_input(control')
    /\ last_sim' = [ran |-> TRUE, trial |-> FALSE, input |-> model_input', control |-> control']
    /\ pc' = "idle"
    /\ UNCHANGED <<fn, step, zero_step_encountered, histories, config, sim_memo,
                   driver, search, kept_cost>>

\* the same with M_validation = 0: compute_cost_noisy(0) raises (oc.py:801, 817)
NoisyFinishRaises ==
    /\ NoisyLoopEnded
    /\ compute_cost_noisy_raises(M_validation)
    /\ control' = control_history[argmin(cost_history)]
    /\ model_input' = update_input(control')
    /\ pc' = "raised"
    /\ UNCHANGED <<fn, step, zero_step_encountered, histories, config, sim_memo,
                   driver, search, last_sim, kept_cost>>

Next ==
    \/ Construct
    \/ OptimizeDeterministic
    \/ DetReturn
    \/ DetStepSize
    \/ DetRecord
    \/ StabilizeDiverged
    \/ StabilizeStable
    \/ DecreaseTrial
    \/ IncreaseDiverged
    \/ IncreaseTrial
    \/ OptimizeNoisy
    \/ OptimizeNoisyRaises
    \/ NoisyIterate
    \/ NoisyRetry
    \/ NoisyRecord
    \/ NoisyFinish
    \/ NoisyFinishRaises

Spec == Init /\ [][Next]_vars

\* the noise-free runs on their own.  The program is one thread that goes on
\* while it has a next statement, hence the weak fairness of the next step
ConstructDeterministic ==
    \E input \in Inputs, u_max \in Strengths :
        Constructor(input, target_shape, u_max, 1, 0, FALSE, None, x_only,
                    <<None, None>>)

NextDeterministic ==
    \/ ConstructDeterministic
    \/ OptimizeDeterministic
    \/ DetReturn
    \/ DetStepSize
    \/ DetRecord
    \/ StabilizeDiverged
    \/ StabilizeStable
    \/ DecreaseTrial
    \/ IncreaseDiverged
    \/ IncreaseTrial

SpecDeterministic ==
    Init /\ [][NextDeterministic]_vars /\ WF_vars(NextDeterministic)

\* between two calls of optimize() the caller assigns self.step, as the tests
\* do (test_wc.py:91-95, 233-237)
CallerSetsStep ==
    /\ pc = "idle"
    /\ \E s \in 0..MaxStep : step' = s
    /\ UNCHANGED <<fn, control, zero_step_encountered, histories, config,
                   model_input, sim_memo, pc, driver, search, last_sim, kept_cost>>

NextCaller ==
    \/ NextDeterministic
    \/ CallerSetsStep

\* the noise-free runs with a caller that assigns self.step
SpecCaller == Init /\ [][NextCaller]_vars

\* --------------------------------------------- the functions on their own
CellVals == (0 - MaxInput)..MaxInput

\* the arguments of update_control_with_limit: a control, a step, a gradient
\* and u_max, which is None or a number
LimitArgs ==
    [control : [x : CellVals, y : CellVals], step : 0..StepRes,
     gradient : [x : GradVals, y : GradVals],
     u_max : {None} \cup {<<u>> : u \in (0 - 1)..MaxStrength}]

InitLimit ==
    /\ pc = "fn"
    /\ fn_args \in LimitArgs
    /\ fn_result = None
    /\ Unconstructed

\* one call of update_control_with_limit (oc.py:255-285)
ApplyLimit ==
    /\ pc = "fn"
    /\ fn_result' = <<update_control_with_limit(
           fn_args.control, fn_args.step, fn_args.gradient, fn_args.u_max)>>
    /\ pc' = "fn_done"
    /\ UNCHANGED <<fields, model_input, sim_memo, driver, search, last_sim,
                   kept_cost, fn_args>>

NextLimit == ApplyLimit

SpecLimit == InitLimit /\ [][NextLimit]_vars

InitConstruction ==
    /\ pc = "new"
    /\ fn_args \in ConstructorArgs
    /\ fn_result = None
    /\ Unconstructed

NextConstruction == ConstructWith

SpecConstruction == InitConstruction /\ [][NextConstruction]_vars

\* the arguments of convert_interval: two indices, each None or a number that
\* may lie beyond either end of the array, and the length of the array
LengthIndexVals == {None} \cup {<<v>> : v \in (0 - MaxLen - 1)..(MaxLen + 1)}

IntervalArgs ==
    [interval : LengthIndexVals \X LengthIndexVals, array_length : 0..MaxLen]

InitInterval ==
    /\ pc = "fn"
    /\ fn_args \in IntervalArgs
    /\ fn_result = None
    /\ Unconstructed

\* one call of convert_interval (oc.py:288-322): an assert fails, or the pair
\* is returned
ApplyInterval ==
    /\ pc = "fn"
    /\ IF convert_interval_raises(fn_args.interval, fn_args.array_length)
       THEN /\ pc' = "raised"
            /\ UNCHANGED fn_result
       ELSE /\ pc' = "fn_done"
            /\ fn_result' = <<convert_interval(fn_args.interval, fn_args.array_length)>>
    /\ UNCHANGED <<fields, model_input, sim_memo, driver, search, last_sim,
                   kept_cost, fn_args>>

\* optimize() normalises the stored interval again (oc.py:674-676): a second
\* call of convert_interval, with the pair the first one returned
ApplyIntervalAgain ==
    /\ pc = "fn_done"
    /\ Len(fn_result) = 1
    /\ IF convert_interval_raises(fn_result[1], fn_args.array_length)
       THEN /\ pc' = "raised"
            /\ UNCHANGED fn_result
       ELSE /\ pc' = "fn_again"
            /\ fn_result' = Append(fn_result,
                                   convert_interval(fn_result[1], fn_args.array_length))
    /\ UNCHANGED <<fields, model_input, sim_memo, driver, search, last_sim,
                   kept_cost, fn_args>>

NextInterval ==
    \/ ApplyInterval
    \/ ApplyIntervalAgain

SpecInterval == InitInterval /\ [][NextInterval]_vars

\* range(first, last): first, ..., last - 1
range(first, last) == first..(last - 1)

RECURSIVE SumOver(_, _)
\* the sum of term[k] over the keys k of S
SumOver(S, term) ==
    IF S = {} THEN 0
    ELSE LET k == CHOOSE k \in S : TRUE IN term[k] + SumOver(S \ {k}, term)

\* the index triples (n, v, t) the loops of the cost functions run through
\* for the time indices ts (cost_functions.py:41-43, 76-78)
Loops(n_nodes, n_vars, ts) == range(0, n_nodes) \X range(0, n_vars) \X ts

\* precision_cost (cost_functions.py:6-46), in units of dt: the weighted sum
\* of the squared differences over range(interval[0], interval[1]), times
\* w_p * 0.5
precision_cost(x_target, x_sim, w_p, n_nodes, precision_matrix, interval) ==
    LET ts == range(interval[1][1], interval[2][1])
        term == [k \in Loops(n_nodes, dim_out, ts) |->
                    precision_matrix[k[1]][k[2]]
                    * (x_target[k] - x_sim[k]) * (x_target[k] - x_sim[k])]
    IN  <<w_p * SumOver(DOMAIN term, term), 2>>

\* derivative_precision_cost (cost_functions.py:50-85): zero outside
\* range(interval[0], interval[1])
derivative_precision_cost(x_target, x_sim, w_p, precision_matrix, interval) ==
    [k \in DOMAIN x_target |->
        IF k[3] \in range(interval[1][1], interval[2][1])
        THEN (0 - w_p) * (x_target[k] - x_sim[k]) * precision_matrix[k[1]][k[2]]
        ELSE 0]

\* time series of the shape N x dim_out x T
Series == [Loops(N, dim_out, range(0, T)) -> 0..MaxVal]

\* binary N x dim_out matrices, indexed from 0
BinaryMatrices == [range(0, N) -> [range(0, dim_out) -> {0, 1}]]

\* the intervals convert_interval returns for an array length (oc.py:488)
NormalizedIntervals(array_length) ==
    {convert_interval(iv, array_length) :
        iv \in {jv \in Intervals : ~convert_interval_raises(jv, array_length)}}

\* the arguments of the precision cost for a time axis of the given length
PrecisionArgs(array_length) ==
    [x_target : Series, x_sim : Series, w_p : 1..MaxWeight,
     precision_matrix : BinaryMatrices, interval : NormalizedIntervals(array_length)]

InitPrecision ==
    /\ pc = "fn"
    /\ fn_args \in PrecisionArgs(T)
    /\ fn_result = None
    /\ Unconstructed

\* one call of precision_cost and one of derivative_precision_cost on the
\* same arguments
ApplyPrecision ==
    /\ pc = "fn"
    /\ fn_result' =
           [cost |-> precision_cost(fn_args.x_target, fn_args.x_sim, fn_args.w_p,
                                    N, fn_args.precision_matrix, fn_args.interval),
            derivative |-> derivative_precision_cost(
                               fn_args.x_target, fn_args.x_sim, fn_args.w_p,
                               fn_args.precision_matrix, fn_args.interval)]
    /\ pc' = "fn_done"
    /\ UNCHANGED <<fields, model_input, sim_memo, driver, search, last_sim,
                   kept_cost, fn_args>>

NextPrecision == ApplyPrecision

SpecPrecision == InitPrecision /\ [][NextPrecision]_vars

\* self.dim_vars of the Hopf model: x, y, x_ou, y_ou (oc.py:386,
\* oc_hopf.py:9-10)
dim_vars == 4

\* self.state_dim (oc.py:390-394)
state_dim == <<N, dim_vars, T>>

\* the index triples of an array of a shape <<nodes, variables, times>>
Indices(shape) == Loops(shape[1], shape[2], range(0, shape[3]))

\* variant: an adjoint state that starts from ones
ones_array(shape) == [k \in Indices(shape) |-> 1]

\* np.zeros(shape)
zeros_array(shape) == [k \in Indices(shape) |-> 0]

\* variant: fx copied into the last two variables
fx_shifted(fx, shape) ==
    [k \in Indices(shape) |-> IF k[2] >= 2 THEN fx[<<k[1], k[2] - 2, k[3]>>] ELSE 0]

\* fx_fullstate (oc.py:193-194): fx in the first two variables, zero in the
\* others
fx_fullstate(fx, shape) ==
    [k \in Indices(shape) |-> IF k[2] < 2 THEN fx[k] ELSE zeros_array(shape)[k]]

RECURSIVE Tabulated(_, _)
\* the array f over the indices S with every entry computed once
Tabulated(S, f) ==
    IF S = {} THEN <<>>
    ELSE LET k == CHOOSE k \in S : TRUE IN (k :> f[k]) @@ Tabulated(S \ {k}, f)

RECURSIVE adjoint_loop(_, _, _, _, _, _, _, _)
\* the loop of solve_adjoint (oc.py:196-207) from the time index t downwards:
\* adjoint_state[n, :, t] = adjoint_state[n, :, t + 1] - der * dt, where der
\* is fx_fullstate[n, :, t + 1] plus the products of the adjoint state at
\* t + 1 with the Jacobians hx and hx_nw
adjoint_loop(hx, hx_nw, fx_full, shape, dt, n_nodes, t, adjoint_state) ==
    IF t < 0 THEN adjoint_state
    ELSE LET vs == range(0, shape[2])
             own(n, k) ==
                 [i2 \in vs |-> adjoint_state[<<n, i2, t + 1>>] * hx[<<n, t + 1, i2, k>>]]
             coupled(n, k) ==
                 [ni \in range(0, n_nodes) \X vs |->
                     adjoint_state[<<ni[1], ni[2], t + 1>>]
                     * hx_nw[<<ni[1], n, t + 1, ni[2], k>>]]
             der(n, k) == fx_full[<<n, k, t + 1>>]
                          + SumOver(vs, own(n, k))
                          + SumOver(range(0, n_nodes) \X vs, coupled(n, k))
             updated ==
                 [j \in Indices(shape) |->
                     IF j[3] = t /\ j[1] \in range(0, n_nodes)
                     THEN adjoint_state[<<j[1], j[2], t + 1>>] - der(j[1], j[2]) * dt
                     ELSE adjoint_state[j]]
         IN  adjoint_loop(hx, hx_nw, fx_full, shape, dt, n_nodes, t - 1,
                          Tabulated(Indices(shape), updated))

\* solve_adjoint (oc.py:171-209)
solve_adjoint(hx, hx_nw, fx, shape, dt, n_nodes, n_times) ==
    adjoint_loop(hx, hx_nw, Tabulated(Indices(shape), fx_fullstate(fx, shape)),
                 shape, dt, n_nodes, n_times - 2, zeros_array(shape))

\* the 2 x 2 blocks of jacobian_hopf (oc_hopf.py:27-28)
JacobianBlocks == [range(0, 2) \X range(0, 2) -> 0..MaxJac]

\* compute_hx of the Hopf model (oc_hopf.py:34-61): at every time index a
\* Jacobian that is zero outside its block; the time indices 0 and 1 share
\* a block
Jacobians(shape) ==
    {[k \in range(0, shape[1]) \X range(0, shape[3])
             \X range(0, shape[2]) \X range(0, shape[2]) |->
         IF k[3] < 2 /\ k[4] < 2
         THEN blocks[IF k[2] = 0 THEN 1 ELSE k[2]][<<k[3], k[4]>>]
         ELSE 0] : blocks \in [range(1, shape[3]) -> JacobianBlocks]}

\* compute_hx_nw of the Hopf model (oc_hopf.py:64-93): the coupling enters
\* the entry [0, 0] only, the same at every time index
CouplingJacobians(shape) ==
    {[k \in range(0, shape[1]) \X range(0, shape[1]) \X range(0, shape[3])
              \X range(0, shape[2]) \X range(0, shape[2]) |->
         IF k[4] = 0 /\ k[5] = 0 THEN 0 - c ELSE 0] : c \in 0..MaxJac}

\* k * fx
scaled(k, fx) == [j \in DOMAIN fx |-> k * fx[j]]

\* the arguments of solve_adjoint for a state of the given shape
AdjointArgs(shape) ==
    [hx : Jacobians(shape), hx_nw : CouplingJacobians(shape), fx : Series,
     k : (0 - 1)..MaxScale, dt : 1..MaxDt]

InitAdjoint ==
    /\ pc = "fn"
    /\ fn_args \in AdjointArgs(state_dim)
    /\ fn_result = None
    /\ Unconstructed

\* one call of solve_adjoint with fx and one with k * fx
ApplyAdjoint ==
    /\ pc = "fn"
    /\ fn_result' =
           [adjoint_state |-> solve_adjoint(fn_args.hx, fn_args.hx_nw, fn_args.fx,
                                            state_dim, fn_args.dt, N, T),
            scaled |-> solve_adjoint(fn_args.hx, fn_args.hx_nw,
                                     scaled(fn_args.k, fn_args.fx),
                                     state_dim, fn_args.dt, N, T)]
    /\ pc' = "fn_done"
    /\ UNCHANGED <<fields, model_input, sim_memo, driver, search, last_sim,
                   kept_cost, fn_args>>

NextAdjoint == ApplyAdjoint

SpecAdjoint == InitAdjoint /\ [][NextAdjoint]_vars

\* a finite floating-point number, written like a cost
Finite(v) == <<v, 1>>

\* the IEEE product: NaN when a factor is NaN, also when the other is zero
Times(a, b) == IF IsNaN(a) \/ IsNaN(b) THEN NaN ELSE Finite(a[1] * b[1])

\* the IEEE sum
Plus(a, b) == IF IsNaN(a) \/ IsNaN(b) THEN NaN ELSE Finite(a[1] + b[1])

\* len(array.shape)
rank(array) == Len(CHOOSE k \in DOMAIN array : TRUE)

\* variant: the gradient without the control matrix
compute_gradient_unmasked(n_nodes, n_out, n_times, df_du, adjoint_state, control_matrix_, d_du) ==
    [k \in Loops(n_nodes, n_out, range(0, n_times)) |->
        Plus(df_du[k],
             Times(adjoint_state[k],
                   IF rank(d_du) = 2 THEN d_du[<<k[2], k[2]>>]
                   ELSE d_du[<<k[1], k[2], k[2], k[3]>>]))]

\* compute_gradient (oc.py:213-252): for a constant Jacobian d_du of the
\* dynamics with respect to the control (oc.py:238-243), for a time-dependent
\* one (oc.py:246-250), and zeros for any other
compute_gradient(n_nodes, n_out, n_times, df_du, adjoint_state, control_matrix_, d_du) ==
    [k \in Loops(n_nodes, n_out, range(0, n_times)) |->
        IF rank(d_du) = 2
        THEN Plus(df_du[k],
                  Times(Times(adjoint_state[k], Finite(control_matrix_[k[1]][k[2]])),
                        d_du[<<k[2], k[2]>>]))
        ELSE IF rank(d_du) = 4
        THEN Plus(df_du[k],
                  Times(Times(adjoint_state[k], Finite(control_matrix_[k[1]][k[2]])),
                        d_du[<<k[1], k[2], k[2], k[3]>>]))
        ELSE Finite(0)]

\* the entries of an adjoint state: a simulation that diverged gives NaN
AdjointVals == {NaN} \cup {Finite(v) : v \in 0..MaxGrad}

\* the entries compute_gradient reads of an adjoint state
AdjointStates == [Loops(N, dim_out, range(0, T)) -> AdjointVals]

\* the derivatives of the control-strength cost, the same at every time index
\* of a variable
ControlCostDerivatives(shape) ==
    {[k \in Indices(shape) |-> Finite(per_variable[k[2]])] :
        per_variable \in [range(0, shape[2]) -> 0..MaxGrad]}

\* the entries compute_gradient reads of Duh(): the diagonal, which is -1 for
\* the Hopf model (oc_hopf.py:183-189)
ControlJacobians(n_out) ==
    {[k \in range(0, n_out) \X range(0, n_out) |->
         IF k[1] = k[2] THEN Finite(diagonal[k[1]]) ELSE Finite(0)] :
        diagonal \in [range(0, n_out) -> (0 - 1)..1]}

\* a Jacobian of shape N x V x V x T, as Duh() of the Wilson-Cowan model
\* returns (oc_wc.py:18-45): d_du at the time index 0, growing by slope with
\* the time index
time_dependent(d_du, slope, shape) ==
    [k \in range(0, shape[1]) \X range(0, shape[2]) \X range(0, shape[2])
            \X range(0, shape[3]) |->
        Finite(d_du[<<k[2], k[3]>>][1] + slope * k[4])]

\* the arguments of compute_gradient for a control of the given shape
GradientArgs(shape) ==
    [df_du : ControlCostDerivatives(shape), adjoint_state : AdjointStates,
     control_matrix : BinaryMatrices, d_du : ControlJacobians(shape[2]),
     slope : 0..MaxSlope]

InitGradient ==
    /\ pc = "fn"
    /\ fn_args \in GradientArgs(target_shape)
    /\ fn_result = None
    /\ Unconstructed

\* one call of compute_gradient with the constant Jacobian and one with the
\* time-dependent Jacobian
ApplyGradient ==
    /\ pc = "fn"
    /\ fn_result' = <<compute_gradient(N, dim_out, T, fn_args.df_du,
                                       fn_args.adjoint_state,
                                       fn_args.control_matrix, fn_args.d_du),
                      compute_gradient(N, dim_out, T, fn_args.df_du,
                                       fn_args.adjoint_state,
                                       fn_args.control_matrix,
                                       time_dependent(fn_args.d_du, fn_args.slope,
                                                      target_shape))>>
    /\ pc' = "fn_done"
    /\ UNCHANGED <<fields, model_input, sim_memo, driver, search, last_sim,
                   kept_cost, fn_args>>

NextGradient == ApplyGradient

SpecGradient == InitGradient /\ [][NextGradient]_vars

\* the trial of a noisy step-size search (oc.py:618-636) with the loop of
\* compute_cost_noisy (oc.py:804-817) step by step: fn_args.M realisations
\* are to be averaged, fn_result holds the locals step, m and cost_validation
\* and the number of realisations that diverged inside compute_cost_noisy
InitNoisyTrial ==
    /\ pc = "ss_stab"
    /\ fn_args \in [M : 2..(MaxM + 1)]
    /\ fn_result = [step |-> MaxStep, m |-> 0, cost_validation |-> 0,
                    skipped |-> 0]
    /\ Unconstructed

\* the locals of the step-size search, and everything but the function call
NoisyTrialFrame ==
    UNCHANGED <<fields, model_input, sim_memo, driver, cost_gradient, cost0,
                cost_prev, lstep, control0, counter, last_sim, kept_cost,
                fn_args>>

\* oc.py:625-631: the simulation of the trial diverges, the step is quartered
NoisyTrialDiverged ==
    /\ pc = "ss_stab"
    /\ Exact(fn_result.step, 4)
    /\ fn_result' = [fn_result EXCEPT !.step = TimesFactorDownSquared(@)]
    /\ UNCHANGED pc
    /\ NoisyTrialFrame

\* oc.py:632-636: the simulation of the trial is stable, compute_cost_noisy
\* is entered
NoisyTrialStable ==
    /\ pc = "ss_stab"
    /\ pc' = "cost_noisy"
    /\ UNCHANGED fn_result
    /\ NoisyTrialFrame

\* oc.py:811-814: a realisation diverges and is simulated again
RealizationDiverged ==
    /\ pc = "cost_noisy"
    /\ fn_result.m < fn_args.M
    /\ fn_result.skipped < MaxSkipped
    /\ fn_result' = [fn_result EXCEPT !.skipped = @ + 1]
    /\ UNCHANGED pc
    /\ NoisyTrialFrame

\* oc.py:811-816: a stable realisation adds its cost
RealizationStable ==
    /\ pc = "cost_noisy"
    /\ fn_result.m < fn_args.M
    /\ \E c \in 0..MaxCost :
        fn_result' = [fn_result EXCEPT !.m = @ + 1, !.cost_validation = @ + c]
    /\ UNCHANGED pc
    /\ NoisyTrialFrame

\* oc.py:817: the mean is returned to step_size as the cost of the trial
CostNoisyReturn ==
    /\ pc = "cost_noisy"
    /\ ~(fn_result.m < fn_args.M)
    /\ pc' = "fn_done"
    /\ UNCHANGED fn_result
    /\ NoisyTrialFrame

NextNoisyTrial ==
    \/ NoisyTrialDiverged
    \/ NoisyTrialStable
    \/ RealizationDiverged
    \/ RealizationStable
    \/ CostNoisyReturn

SpecNoisyTrial == InitNoisyTrial /\ [][NextNoisyTrial]_vars

\* the loop of optimize_noisy (oc.py:729, 753-774) on its own, a call of
\* step_size being one step that stagnates or not.  fn_result logs, for the
\* iterations whose searches have ended and for the current one, whether
\* each call of step_size stagnated
InitNoisyLoop ==
    /\ pc = "noisy_enter"
    /\ fn_args = None
    /\ fn_result = [iterations |-> <<>>, calls |-> <<>>]
    /\ Unconstructed

\* everything but the locals of the loop and the flag
NoisyLoopFrame ==
    UNCHANGED <<control, step, histories, config, model_input, sim_memo, calls,
                search, last_sim, kept_cost, fn_args>>

\* oc.py:729, 753: consecutive_zero_step = 0 and the range of the loop
LoopEnter ==
    /\ pc = "noisy_enter"
    /\ \E n \in 0..MaxLoopIter : n_max_iterations' = n
    /\ consecutive_zero_step' = 0
    /\ i' = 1
    /\ pc' = "noisy_loop"
    /\ UNCHANGED <<zero_step_encountered, count, fn_result>>
    /\ NoisyLoopFrame

\* oc.py:753-756: the next value of i, count = 0
LoopIterate ==
    /\ pc = "noisy_loop"
    /\ ~range_exhausted(i, n_max_iterations)
    /\ count' = 0
    /\ fn_result' = [fn_result EXCEPT !.calls = <<>>]
    /\ pc' = "noisy_while"
    /\ UNCHANGED <<zero_step_encountered, i, n_max_iterations, consecutive_zero_step>>
    /\ NoisyLoopFrame

\* oc.py:758-764: one pass of the while loop; step_size sets the flag or
\* leaves it cleared
LoopSearch ==
    /\ pc = "noisy_while"
    /\ retry_allowed(count)
    /\ count' = count + 1
    /\ \E stagnated \in BOOLEAN :
        /\ zero_step_encountered' = stagnated
        /\ fn_result' = [fn_result EXCEPT !.calls = Append(@, stagnated)]
        /\ consecutive_zero_step' = IF stagnated THEN consecutive_zero_step ELSE 0
        /\ pc' = IF stagnated THEN "noisy_while" ELSE "noisy_after"
    /\ UNCHANGED <<i, n_max_iterations>>
    /\ NoisyLoopFrame

\* oc.py:758: the condition of the while loop fails
LoopRetriesEnd ==
    /\ pc = "noisy_while"
    /\ ~retry_allowed(count)
    /\ pc' = "noisy_after"
    /\ UNCHANGED <<zero_step_encountered, i, n_max_iterations, consecutive_zero_step,
                   count, fn_result>>
    /\ NoisyLoopFrame

\* oc.py:766-774: a stagnated iteration is counted and the third in a row
\* leaves the loop; otherwise the iteration is recorded and the loop goes on
LoopRecord ==
    /\ pc = "noisy_after"
    /\ consecutive_zero_step' = ConsecutiveAfter
    /\ fn_result' = [fn_result EXCEPT !.iterations = Append(@, fn_result.calls)]
    /\ IF zero_step_encountered /\ stagnated_in_a_row(ConsecutiveAfter)
       THEN /\ pc' = "noisy_break"
            /\ UNCHANGED i
       ELSE /\ pc' = "noisy_loop"
            /\ i' = i + 1
    /\ UNCHANGED <<zero_step_encountered, n_max_iterations, count>>
    /\ NoisyLoopFrame

\* oc.py:753: the range is exhausted
LoopExhausted ==
    /\ pc = "noisy_loop"
    /\ range_exhausted(i, n_max_iterations)
    /\ pc' = "noisy_end"
    /\ UNCHANGED <<zero_step_encountered, i, n_max_iterations, consecutive_zero_step,
                   count, fn_result>>
    /\ NoisyLoopFrame

NextNoisyLoop ==
    \/ LoopEnter
    \/ LoopIterate
    \/ LoopSearch
    \/ LoopRetriesEnd
    \/ LoopRecord
    \/ LoopExhausted

SpecNoisyLoop == InitNoisyLoop /\ [][NextNoisyLoop]_vars

\* ------------------------------------------------------------ properties
\* every element of a control is within the saturation bound
WithinLimit(control_, u_max) == \A k \in DOMAIN control_ : Abs(control_[k]) <= u_max[1]

\* C1: when step_size returns, the cost the search evaluated for the control
\* it leaves in place is not greater than cost0, or the stagnation flag is set
\* and the step is 0
C1_ReturnedStepDoesNotRaiseCost ==
    pc = "ss_ret" =>
        \/ ~Gt(kept_cost, cost0)
        \/ zero_step_encountered /\ lstep = 0

\* a search returns a step it found in the decrease loop, with a lower cost
C1_Witness ==
    /\ pc = "ss_ret"
    /\ counter > 0
    /\ lstep # 0
    /\ lstep < step
    /\ Lt(kept_cost, cost0)

\* C2: in deterministic mode no entry of cost_history is greater than the
\* entry before it
C2_CostHistoryNonIncreasing ==
    M = 1 =>
        \A k \in 2..Len(cost_history) : ~Gt(cost_history[k], cost_history[k - 1])

\* the first least number of a cost history is at index k
FirstLeast(h, k) ==
    /\ ~IsNaN(h[k])
    /\ \A j \in 1..Len(h) : IsNaN(h[j]) \/ Le(h[k], h[j])
    /\ \A j \in 1..(k - 1) : IsNaN(h[j]) \/ Lt(h[k], h[j])

\* optimize_noisy has returned
NoisyReturned == pc = "idle" /\ M > 1 /\ calls > 0

\* C3: when optimize_noisy has returned, self.control is the entry of
\* control_history at the first index of the least recorded cost, and the
\* model input is the one derived from it
C3_LeastCostControlRestored ==
    NoisyReturned =>
        /\ \A k \in 1..Len(cost_history) :
               FirstLeast(cost_history, k) => control = control_history[k]
        /\ model_input = update_input(control)

Unclipped(k) == fn_args.control[k] + fn_args.step * fn_args.gradient[k]

\* the element k of the result was saturated
Clipped(k) == fn_result[1][k] # Unclipped(k)

\* two numbers are both positive, both negative or both zero
SameSign(a, b) == (a > 0 /\ b > 0) \/ (a < 0 /\ b < 0) \/ (a = 0 /\ b = 0)

C6_ZeroStepIdentity ==
    (pc = "fn_done" /\ fn_args.step = 0) => fn_result[1] = fn_args.control

\* C6: with the step 0 the result equals the control when u_max is None or
\* every element of the control is within u_max
C6_ZeroStepIdentityWithinLimit ==
    (/\ pc = "fn_done"
     /\ fn_args.step = 0
     /\ fn_args.u_max # None => WithinLimit(fn_args.control, fn_args.u_max)) =>
        fn_result[1] = fn_args.control

\* the step 0 is applied to a control at the bound, with a gradient
C6_Witness ==
    /\ pc = "fn_done"
    /\ fn_args.step = 0
    /\ fn_args.u_max # None
    /\ fn_args.control.x = fn_args.u_max[1]
    /\ fn_args.control.x > 0
    /\ fn_args.gradient.x # 0
    /\ fn_result[1] = fn_args.control

\* C7: optimize() does not raise
C7_OptimizeReturnsNormally == ~(pc = "raised" /\ calls > 0)

\* C8 as stated: in the deterministic loop a zero gradient ends the loop
\* without a step-size search
C8_ZeroGradientNotSearched ==
    ~(M = 1 /\ pc \in {"ss_stab", "ss_dec", "ss_inc", "ss_ret"}
            /\ cost_gradient = ZeroControl)

\* C8: the deterministic loop ends only when the range is exhausted or the
\* stagnation flag is set; otherwise an iteration enters the step-size search,
\* whatever the gradient, and a cost is recorded when the search returns
C8_LoopEndsOnFlagOrCap ==
    [][M = 1 =>
        /\ (pc = "det_loop" /\ pc' = "idle") =>
               (i > n_max_iterations \/ zero_step_encountered)
        /\ (pc = "det_loop" /\ pc' # "idle") =>
               (i <= n_max_iterations /\ ~zero_step_encountered /\ pc' = "ss_stab")
        /\ pc = "ss_ret" =>
               (Len(cost_history') = Len(cost_history) + 1 /\ pc' = "det_loop")]_vars

\* a search with a zero gradient has returned stagnated
C8_Witness ==
    /\ M = 1
    /\ pc = "ss_ret"
    /\ cost_gradient = ZeroControl
    /\ zero_step_encountered
    /\ i <= n_max_iterations

\* C9: at every forward simulation the model input is the one derived from
\* self.control
C9_InputDerivedFromControl ==
    last_sim.ran => last_sim.input = update_input(last_sim.control)

\* a given mask has an entry other than 0 and 1
NonBinary(matrix) == matrix # None /\ \E k \in DOMAIN matrix : matrix[k] \notin {0, 1}

\* a given index lies beyond the time axis
OutsideAxis(index) == index # None /\ (index[1] > T \/ index[1] < 0 - T)

\* the normalised start is not before the normalised end
Unordered(interval) ==
    interval_new(interval[1], 0, T) >= interval_new(interval[2], T, T)

\* C10: construction raises, and stores nothing, when a mask has an entry
\* other than 0 and 1, when the normalised interval has start >= end, or when
\* an index lies outside the time axis
C10_MalformedConfigurationRejected ==
    /\ (/\ pc # "new"
        /\ \/ NonBinary(fn_args.cost_matrix)
           \/ NonBinary(fn_args.control_matrix)
           \/ Unordered(fn_args.cost_interval)
           \/ OutsideAxis(fn_args.cost_interval[1])
           \/ OutsideAxis(fn_args.cost_interval[2])) => pc = "raised"
    /\ pc = "raised" =>
           /\ cost_matrix = None
           /\ control_matrix = None
           /\ cost_interval = <<None, None>>
    /\ pc = "idle" => (is_binary(cost_matrix) /\ is_binary(control_matrix))

\* a control mask with an entry 2 is rejected although the target, the cost
\* mask and the interval are valid
C10_Witness ==
    /\ pc = "raised"
    /\ fn_args.target = target_shape
    /\ fn_args.cost_matrix = None
    /\ fn_args.control_matrix = <<1, MaxMask>>
    /\ fn_args.cost_interval = <<None, None>>

\* C11: construction raises when the target is an array whose shape is not
\* N x dim_out x T; no such target is stored in a constructed controller
C11_MismatchedTargetRejected ==
    /\ (pc # "new" /\ Len(fn_args.target) = 3 /\ fn_args.target # target_shape) =>
           pc = "raised"
    /\ pc = "idle" => target_timeseries = target_shape

\* the index the claim states for a given index: the default for None, the
\* length plus the index for a negative one, else the index
StatedIndex(index, default, length) ==
    CASE index = None -> default
      [] index # None /\ index[1] < 0 -> length + index[1]
      [] OTHER -> index[1]

\* C12: a pair (s, e) that convert_interval returns for (a, b) and L has
\* s = 0 for a None, L + a for a < 0, else a, and e = L for b None, L + b for
\* b < 0, else b, and 0 <= s < e <= L
C12_ReturnedIntervalNormalized ==
    pc = "fn_done" =>
        LET s == fn_result[1][1][1]
            e == fn_result[1][2][1]
            L == fn_args.array_length
        IN  /\ s = StatedIndex(fn_args.interval[1], 0, L)
            /\ e = StatedIndex(fn_args.interval[2], L, L)
            /\ 0 <= s
            /\ s < e
            /\ e <= L

\* convert_interval((-5, None), 10) has returned (5, 10)
C12_Witness ==
    /\ pc = "fn_done"
    /\ fn_args.interval = << <<0 - 5>>, None >>
    /\ fn_args.array_length = 10
    /\ fn_result[1] = << <<5>>, <<10>> >>

\* the time indices from the start to the end of an interval, both included
Inclusive(interval) == {t \in range(0, T) : interval[1][1] <= t /\ t <= interval[2][1]}

\* the weighted squared difference of one entry
SquaredError(k) ==
    fn_args.precision_matrix[k[1]][k[2]]
    * (fn_args.x_target[k] - fn_args.x_sim[k]) * (fn_args.x_target[k] - fn_args.x_sim[k])

\* C13: the precision cost is w_p * 0.5 * dt times the sum of the weighted
\* squared differences over the time indices start <= t <= end, and its
\* derivative is -w_p * (target - simulated) * mask at these indices and zero
\* at the others
C13_IntervalEndInclusive ==
    pc = "fn_done" =>
        LET ks == Loops(N, dim_out, Inclusive(fn_args.interval))
            term == [k \in ks |-> SquaredError(k)]
        IN  /\ fn_result.cost = <<fn_args.w_p * SumOver(ks, term), 2>>
            /\ \A k \in DOMAIN fn_result.derivative :
                   fn_result.derivative[k] =
                       IF k \in ks
                       THEN (0 - fn_args.w_p) * (fn_args.x_target[k] - fn_args.x_sim[k])
                            * fn_args.precision_matrix[k[1]][k[2]]
                       ELSE 0

\* C14: the adjoint state of k * fx is k times the adjoint state of fx, for
\* the same Jacobians and dt, and the adjoint state of a zero fx is zero
C14_AdjointLinearInFx ==
    pc = "fn_done" =>
        /\ \A j \in DOMAIN fn_result.adjoint_state :
               fn_result.scaled[j] = fn_args.k * fn_result.adjoint_state[j]
        /\ (\A j \in DOMAIN fn_args.fx : fn_args.fx[j] = 0) =>
               \A j \in DOMAIN fn_result.adjoint_state : fn_result.adjoint_state[j] = 0

\* fx is doubled with a Jacobian and a coupling that are not zero, and the
\* adjoint state of fx is not zero at the first time index
C14_Witness ==
    /\ pc = "fn_done"
    /\ fn_args.k = 2
    /\ fn_args.hx[<<0, 1, 0, 1>>] # 0
    /\ fn_args.hx_nw[<<0, 0, 1, 0, 0>>] # 0
    /\ fn_result.adjoint_state[<<0, 0, 0>>] # 0
    /\ fn_result.adjoint_state[<<0, 0, 0>>] # fn_result.adjoint_state[<<0, 0, 1>>]

\* C15: for a node n and a variable v with control_matrix[n, v] = 0 and a
\* zero derivative of the control-strength cost, every entry grad[n, v, t] is
\* zero, whatever the adjoint state and the control Jacobian are
C15_InactiveChannelGradientZero ==
    pc = "fn_done" =>
        \A n \in range(0, N), v \in range(0, dim_out) :
            (/\ fn_args.control_matrix[n][v] = 0
             /\ \A t \in range(0, T) : fn_args.df_du[<<n, v, t>>] = Finite(0)) =>
                \A t \in range(0, T) : fn_result[1][<<n, v, t>>] = Finite(0)

\* two costs are numbers and equal
SameCost(a, b) == Le(a, b) /\ Le(b, a)

\* step_size is about to return from the branch taken when the cost of the
\* first stable trial is neither greater nor less than cost0
NeitherBranch == pc = "ss_ret" /\ counter = 0 /\ lstep = 0

\* C16: when the cost of the first stable trial equals cost0, step_size sets
\* zero_step_encountered and returns with self.control and the model input
\* equal to the control held before the call
C16_EqualCostLeavesControl ==
    (NeitherBranch /\ SameCost(kept_cost, cost0)) =>
        /\ zero_step_encountered
        /\ control = control0
        /\ model_input = update_input(control0)

\* a step-size search is running
Searching == pc \in {"ss_stab", "ss_dec", "ss_inc", "ss_ret"}

\* C17: when step_size returns the step s, self.control is
\* update_control_with_limit(control0, s, direction, u_max) for the control0
\* held before the call; every call has appended one step and one loop
\* count, and after the call self.step is the step recorded last
C17_ControlBelongsToRecordedStep ==
    /\ pc = "ss_ret" =>
           control = update_control_with_limit(
                         control0, lstep, cost_gradient, maximum_control_strength)
    /\ Len(step_sizes_history) = Len(step_sizes_loops_history)
    /\ (~Searching /\ Len(step_sizes_history) > 0) =>
           step = step_sizes_history[Len(step_sizes_history)]

\* C18: every pass of the decrease loop halves the step and simulates the
\* trial of the halved step; the loop goes on exactly while the cost of the
\* trial exceeds cost0; the pass that makes count_step trials returns the
\* step 0, sets zero_step_encountered and puts self.control and the model
\* input back to control0
C18_DecreaseUntilImprovedOrCapped ==
    [][pc = "ss_dec" =>
        /\ counter' = counter + 1
        /\ last_sim'.trial
        /\ last_sim'.control = update_control_with_limit(
               control0, lstep \div 2, cost_gradient, maximum_control_strength)
        /\ last_sim'.input = update_input(last_sim'.control)
        /\ IF counter' = count_step
           THEN /\ pc' = "ss_ret"
                /\ lstep' = 0
                /\ zero_step_encountered'
                /\ control' = control0
                /\ model_input' = update_input(control0)
           ELSE /\ 2 * lstep' = lstep
                /\ control' = last_sim'.control
                /\ model_input' = last_sim'.input
                /\ zero_step_encountered' = zero_step_encountered
                /\ pc' = IF Gt(kept_cost', cost0) THEN "ss_dec" ELSE "ss_ret"]_vars

\* the decrease loop has made count_step trials, the last one with a control
\* other than control0, and returns the step 0 with control0 restored
C18_Witness ==
    /\ pc = "ss_ret"
    /\ counter = count_step
    /\ lstep = 0
    /\ zero_step_encountered
    /\ last_sim.trial
    /\ last_sim.control # control0
    /\ control = control0
    /\ model_input = update_input(control0)

\* C19: in the increase loop, after a trial that did not diverge and whose
\* cost is lower than the cost of the trial before it, the loop makes another
\* pass unless count_step passes have been made
C19_GrowthRepeatsWhileImproving ==
    [][(/\ pc = "ss_inc"
        /\ Lt(kept_cost', kept_cost)
        /\ counter' < count_step) => pc' = "ss_inc"]_vars

\* the cost the noise-free simulator gave for the trial of the step s
CostAt(s) == sim_memo[<<update_input(Trial(s)), Trial(s)>>]

\* increase_step is about to return: self.step is still the initial stable
\* step, and the returned step is that step or a multiple of it
IncreaseReturns == pc = "ss_ret" /\ counter > 0 /\ lstep > 0 /\ lstep >= step

\* C20: in deterministic mode, when increase_step returns, the cost of the
\* returned step is not greater than the cost of any step tried in the
\* search: the initial stable step and the grown step
C20_ReturnedStepIsBest ==
    (M = 1 /\ IncreaseReturns) =>
        \A s \in {step, factor_up * step} : ~Gt(CostAt(lstep), CostAt(s))

\* step_size is about to return a step other than 0 in deterministic mode
DetAccepts == M = 1 /\ pc = "ss_ret" /\ lstep > 0

\* C21: the step-size search never accepts a step whose trial diverged: when
\* it returns a step other than 0, the simulation of the control it leaves in
\* place did not diverge
C21_DivergentTrialNeverAccepted ==
    DetAccepts => ~diverged(sim_memo[<<model_input, control>>])

\* C22: in stochastic mode the cost of a trial is returned to the step-size
\* search only when none of the realisations simulated for it diverged
C22_DivergentRealizationNotSkipped ==
    pc = "fn_done" => fn_result.skipped = 0

\* the calls of step_size of the k-th iteration of the loop, and whether the
\* iteration ended stagnated
CallsOf(k) == fn_result.iterations[k]

EndedStagnated(k) == CallsOf(k)[Len(CallsOf(k))]

ThreeInARow(k) ==
    k >= 3 /\ EndedStagnated(k) /\ EndedStagnated(k - 1) /\ EndedStagnated(k - 2)

\* an iteration calls step_size at most count_noisy_step times and stops at
\* the first call that does not stagnate
RetriesStopAtFirstSuccess(calls_) ==
    /\ Len(calls_) \in 1..count_noisy_step
    /\ \A j \in 1..(Len(calls_) - 1) : calls_[j]
    /\ calls_[Len(calls_)] => Len(calls_) = count_noisy_step

\* C23: in the loop of optimize_noisy every iteration calls step_size at
\* most count_noisy_step times and stops at the first call that does not
\* stagnate; the loop is left by the break exactly when the last three
\* iterations ended stagnated, and an iteration that did not stagnate leaves
\* consecutive_zero_step at 0
C23_NoisyLoopStopsAfterThreeStagnations ==
    pc \in {"noisy_loop", "noisy_break", "noisy_end"} =>
        LET done == Len(fn_result.iterations) IN
        /\ \A k \in 1..done : RetriesStopAtFirstSuccess(CallsOf(k))
        /\ pc = "noisy_break" <=> ThreeInARow(done)
        /\ pc = "noisy_break" => done <= n_max_iterations
        /\ pc = "noisy_end" =>
               done = n_max_iterations /\ \A k \in 1..done : ~ThreeInARow(k)
        /\ (done > 0 /\ ~EndedStagnated(done)) => consecutive_zero_step = 0

\* the loop is left early by the break, after an iteration that did not
\* stagnate and one that needed a retry
C23_Witness ==
    /\ pc = "noisy_break"
    /\ Len(fn_result.iterations) < n_max_iterations
    /\ \E k \in 1..Len(fn_result.iterations) :
           ~EndedStagnated(k) /\ Len(CallsOf(k)) > 1

\* a call of step_size is under way
InSearch == pc \in {"ss_stab", "ss_dec", "ss_inc"}

\* the next trial would need a step or a search outside the modelled range
RangeLeft == ~ENABLED NextDeterministic

Padded(fx, n, k, t) == IF k < dim_out THEN fx[<<n, k, t>>] ELSE 0

\* the right-hand side of the backward recurrence at node n, variable k and
\* time index t, for the adjoint state a
Backward(a, n, k, t) ==
    LET vs == range(0, dim_vars)
        ns == range(0, N)
        own == [i2 \in vs |-> a[<<n, i2, t + 1>>] * fn_args.hx[<<n, t + 1, i2, k>>]]
        coupled == [ni \in ns \X vs |->
                       a[<<ni[1], ni[2], t + 1>>]
                       * fn_args.hx_nw[<<ni[1], n, t + 1, ni[2], k>>]]
    IN  a[<<n, k, t + 1>>]
        - fn_args.dt * (Padded(fn_args.fx, n, k, t + 1) + SumOver(vs, own)
                        + SumOver(ns \X vs, coupled))

GradientEntry(k, D) ==
    IF IsNaN(fn_args.df_du[k]) \/ IsNaN(fn_args.adjoint_state[k]) \/ IsNaN(D)
    THEN NaN
    ELSE Finite(fn_args.df_du[k][1]
                + fn_args.adjoint_state[k][1] * fn_args.control_matrix[k[1]][k[2]]
                  * D[1])

\* C26: compute_gradient returns df_du[n, v, t] + adjoint_state[n, v, t] *
\* control_matrix[n, v] * D, where D is the diagonal entry d_du[v, v] of a
\* constant Jacobian and d_du[n, v, v, t] of a time-dependent one; both give
\* the same gradient when the time-dependent Jacobian is constant, and the
\* arguments are left as they were
C26_GradientFormula ==
    /\ [](pc = "fn_done" =>
            LET d4 == time_dependent(fn_args.d_du, fn_args.slope, target_shape) IN
            /\ \A k \in Loops(N, dim_out, range(0, T)) :
                /\ fn_result[1][k] = GradientEntry(k, fn_args.d_du[<<k[2], k[2]>>])
                /\ fn_result[2][k] = GradientEntry(k, d4[<<k[1], k[2], k[2], k[3]>>])
            /\ fn_args.slope = 0 => fn_result[2] = fn_result[1])
    /\ [][fn_args' = fn_args]_vars

\* a time-dependent Jacobian with entries off the diagonal, an active and an
\* inactive channel, and gradients that differ between the two Jacobians
C26_Witness ==
    /\ pc = "fn_done"
    /\ fn_args.slope > 0
    /\ fn_args.control_matrix[0][0] = 1
    /\ fn_args.control_matrix[0][1] = 0
    /\ fn_args.adjoint_state[<<0, 0, T - 1>>] = Finite(1)
    /\ fn_args.d_du[<<0, 0>>] = Finite(0 - 1)
    /\ fn_result[2][<<0, 0, T - 1>>] # fn_result[1][<<0, 0, T - 1>>]

\* no search is under way: optimize() has not been called, has returned, or
\* is at the head of its loop
BetweenSearches == pc \in {"idle", "det_loop"}

\* C27: in a noise-free run the flag zero_step_encountered is never cleared;
\* once a search has set it, the loop of optimize() is left at its next
\* iteration, and no later step starts a search, appends a cost or changes
\* the control, whatever the caller assigns to self.step
C27_ZeroStepFlagIsFinal ==
    [][/\ zero_step_encountered => zero_step_encountered'
       /\ (zero_step_encountered /\ BetweenSearches) =>
              /\ BetweenSearches'
              /\ pc = "det_loop" => pc' = "idle"
              /\ control' = control
              /\ cost_history' = cost_history
              /\ step_sizes_history' = step_sizes_history]_vars

\* the first call of optimize() made one search, which set the flag; the
\* caller assigned a step other than 0, and a second call with
\* n_max_iterations > 0 has returned from its first iteration
C27_Witness ==
    /\ pc = "idle"
    /\ zero_step_encountered
    /\ calls = 2
    /\ n_max_iterations > 0
    /\ i = 1
    /\ step > 0
    /\ Len(step_sizes_history) = 1

\* a search has stored the step 0 in self.step
StepIsZero == step = 0 /\ pc \notin {"new", "raised"}

Grown(before, after) ==
    \/ after = before
    \/ Len(after) = Len(before) + 1 /\ SubSeq(after, 1, Len(before)) = before

\* C29: no entry of cost_history or control_history is ever changed; without
\* noise control_history stays empty; with noise the two lists have the same
\* length where the arg-min is taken and whenever optimize() has returned,
\* and every cost that is recorded was evaluated with the input of the
\* control recorded at the same index
C29_HistoriesAligned ==
    /\ [][/\ Grown(cost_history, cost_history')
          /\ Grown(control_history, control_history')
          /\ (M' > 1 /\ Len(cost_history') > Len(cost_history)) =>
                 /\ Len(control_history') = Len(cost_history')
                 /\ last_sim'.input
                        = update_input(control_history'[Len(cost_history')])]_vars
    /\ [](M = 1 => control_history = <<>>)
    /\ []((M > 1 /\ (NoisyLoopEnded \/ pc = "idle")) =>
              Len(control_history) = Len(cost_history))

\* C30: convert_interval applied to a pair it has returned, with the same
\* array length, fails no assert and returns the same pair
C30_IntervalIdempotent ==
    /\ pc = "raised" => fn_result = None
    /\ pc = "fn_again" => fn_result[2] = fn_result[1]

\* convert_interval((-3, None), 10) has returned (7, 10), and (7, 10) again
\* for (7, 10)
C30_Witness ==
    /\ pc = "fn_again"
    /\ fn_args.interval = << <<0 - 3>>, None >>
    /\ fn_args.array_length = 10
    /\ fn_result = << << <<7>>, <<10>> >>, << <<7>>, <<10>> >> >>

====
